---- MODULE Spec2Model ----
(***************************************************************************)
(* Appium gateway hub: the session pool (session_pool.py), the backend     *)
(* supervisor (server_manager.py), the HTTP routes that drive them          *)
(* (gateway.py) and the signal handler (main.py).                           *)
(*                                                                         *)
(* Threads.  The routes are "async def" and run on the event loop of the   *)
(* main thread: a route runs without interleaving from one await to the    *)
(* next, and every SessionPool call it makes is a blocking call of the     *)
(* main thread.  The eviction loop runs on its own daemon thread.  The     *)
(* signal handler installed with signal.signal runs on the main thread,    *)
(* on top of whatever frame the main thread is executing.                  *)
(*                                                                         *)
(* Time is counted in ticks of 30 seconds.                                 *)
(*                                                                         *)
(* The specifications share the actions.  Spec is the session pool under  *)
(* every sequence of calls the main thread can make of it, with the        *)
(* eviction thread, the signal handler and the clock.  GatewaySpec is the  *)
(* create and delete routes of the gateway over the same pool, each cut at *)
(* its awaits, with the status every request is answered with.             *)
(* ProxySpec is the dispatch of the requests under /session/{id}/ and the  *)
(* forwarding route, cut at its awaits, over a pool that creates and       *)
(* deletes sessions meanwhile.                                             *)
(* HeaderSpec is the header preparation of the forwarding route applied to *)
(* every list of header lines up to a length.                              *)
(* EvictionSpec is the eviction thread beside the pool calls, with the     *)
(* fairness of its scheduling, for what it does in the long run.           *)
(* CreateSpec is create_session beside the eviction thread, with the       *)
(* fairness of the clock and of the timeouts of start().                   *)
(* ManagerSpec is the AppiumServerManager class by itself, as the package  *)
(* exports it: supervisors under every sequence of start, stop and         *)
(* is_alive calls.                                                         *)
(***************************************************************************)
EXTENDS Integers, Sequences, FiniteSets, TLC

\* ------------------------------------------------------------- bounds
\* largest number of ports in the configured range
MaxPorts == 2
\* largest configured max_sessions
MaxSessions == 2
\* number of session ids (uuid4 values) the hub may draw
MaxIds == 2
\* configured idle timeout, in ticks
session_timeout == 1
\* largest number of forwarded requests awaiting their backend at once
MaxInFlight == 1
\* largest number of header lines of a request
MaxHeaders == 2
\* largest number of exceptions that reach the except clause of the
\* eviction loop
MaxErrors == 1

\* ------------------------------------------------- program constants
\* first port of the range (default of SessionPool.__init__)
port_range_start == 4723
\* time.sleep(60) of the eviction loop: 2 ticks
CleanupInterval == 2
\* start(timeout=30): 1 tick
StartTimeout == 1

Ids == 1..MaxIds
\* the id no session ever has (a request for an id the hub never issued)
NoId == 0
\* None, as a port
NoPort == 0

VARIABLES
    max_sessions,    \* SessionPool.max_sessions
    port_range_end,  \* SessionPool.port_range_end
    sessions,        \* SessionPool._sessions: id -> SessionInfo
    used_ports,      \* SessionPool._used_ports
    lock,            \* owner of SessionPool._lock: "none", "main", "cleanup"
    sup,             \* the AppiumServerManager built for each id
    procs,           \* the process (group) behind each supervisor's handle
    orphans,         \* the ports on which a spawned process still runs that no
                     \* supervisor refers to any more
    next_id,         \* the next uuid4 value
    main,            \* the frame the main thread is in: the event loop, or a
                     \* blocking call made by a route
    posts,           \* the POST /session requests awaiting the backend's answer
    deletes,         \* the DELETE /session/{id} requests awaiting the backend
    proxies,         \* the /session/{id}/{tail} requests past the lookup whose
                     \* outbound call has not returned
    cleanup,         \* the eviction thread
    hub,             \* "running", "exited" (sys.exit ran), "hung"
    calls,           \* the SessionPool calls completed by the last step
    resp,            \* the HTTP response sent by the last step
    hdr,             \* the header lines of a forwarded request and the headers
                     \* proxy_to_appium made of them
    stopped          \* the supervisors still referred to whose start failed or
                     \* on which stop() took effect; a pool drops a supervisor
                     \* with the stop, so only free-standing ones get here

vars == <<max_sessions, port_range_end, sessions, used_ports, lock, sup, procs,
          orphans, next_id, main, posts, deletes, proxies, cleanup, hub, calls,
          resp, hdr, stopped>>

\* Clock readings are kept as distances from time.time():
\*   sessions[id].idle     = time.time() - last_used
\*   cleanup.lag           = time.time() - current_time
\*   cleanup.sleep_left    = the rest of time.sleep(60)
\*   main.elapsed          = time.time() - start_time of _wait_for_server_ready

\* ------------------------------------------------------------ helpers
Min(a, b) == IF a <= b THEN a ELSE b

\* self._available_ports = list(range(port_range_start, port_range_end + 1))
available_ports == port_range_start..port_range_end

Remove(f, k) == [x \in (DOMAIN f) \ {k} |-> f[x]]

Put(f, k, v) == [x \in (DOMAIN f) \cup {k} |-> IF x = k THEN v ELSE f[x]]

RECURSIVE Ascending(_)
\* the ids of a set in the order the dict holds them (insertion = issue order)
Ascending(S) ==
    IF S = {} THEN <<>>
    ELSE LET m == CHOOSE x \in S : \A y \in S : x <= y
         IN  <<m>> \o Ascending(S \ {m})

NoSup == [port |-> NoPort, is_running |-> FALSE, process |-> FALSE]

NoCall == <<>>

\* no outbound request
NoTarget == [port |-> NoPort, path |-> <<>>, method |-> "none", body |-> ""]

NoResp == [op |-> "none", status |-> 0, id |-> NoId, created |-> FALSE,
           upstream |-> "none", code |-> 0, clean |-> FALSE,
           before |-> {}, before_ports |-> {}, target |-> NoTarget]

\* the main thread in the event loop
Loop == [pc |-> "loop", op |-> "none", id |-> NoId, elapsed |-> 0, status |-> 0,
         upstream |-> "none", code |-> 0, clean |-> FALSE,
         before |-> {}, before_ports |-> {}]

\* the pool's data as one value, for the operators below
Pool == [sessions |-> sessions, used_ports |-> used_ports, sup |-> sup,
         procs |-> procs, orphans |-> orphans]

\* the supervisor of id is dropped; a process it leaves running is an orphan
Drop(orph, port, proc) == IF proc = "alive" THEN orph \cup {port} ELSE orph

\* ------------------------------------------------- server_manager.py

\* the cleanup with the two signals in the other order
_cleanup_kill_first(s, p, out) ==
    IF ~s.process
    THEN [sup |-> s, proc |-> p, raised |-> FALSE, sigs |-> <<>>]
    ELSE [sup |-> [s EXCEPT !.process = FALSE],
          proc |-> IF p = "alive" THEN "killed" ELSE p, raised |-> FALSE,
          sigs |-> <<"SIGKILL", "SIGTERM">>]

\* _cleanup_process: nothing without a handle; otherwise killpg(SIGTERM) and
\* wait(timeout=5), killpg(SIGKILL) after a TimeoutExpired or a
\* ProcessLookupError; the handle is dropped in the finally clause.  sigs are
\* the signals that were sent to the group.  out is what killpg and wait do:
\*   "ok"       SIGTERM is sent and the wait returns within 5 s (at once for
\*              a process that has exited and was not yet waited for)
\*   "timeout"  the live process does not exit within 5 s: SIGKILL
\*   "gone"     no such process: os.getpgid raises ProcessLookupError before
\*              either signal is sent
\*   "fail"     killpg on the live group raises another OSError, which
\*              leaves the method
_cleanup_process(s, p, out) ==
    IF ~s.process
    THEN [sup |-> s, proc |-> p, raised |-> FALSE, sigs |-> <<>>]
    ELSE IF out = "fail" /\ p = "alive"
    THEN [sup |-> [s EXCEPT !.process = FALSE], proc |-> p, raised |-> TRUE,
          sigs |-> <<>>]
    ELSE [sup |-> [s EXCEPT !.process = FALSE],
          proc |-> IF p = "alive" THEN "killed" ELSE p, raised |-> FALSE,
          sigs |-> IF p = "alive"
                   THEN IF out = "timeout" THEN <<"SIGTERM", "SIGKILL">>
                        ELSE <<"SIGTERM">>
                   ELSE IF out = "gone" THEN <<>> ELSE <<"SIGTERM">>]

\* stop without its try/except: the exception of the cleanup reaches the caller
stop_raising(s, p, out) ==
    IF ~s.is_running
    THEN [sup |-> s, proc |-> p, ret |-> TRUE, raised |-> FALSE, sigs |-> <<>>]
    ELSE LET c == _cleanup_process(s, p, out)
         IN  IF c.raised
             THEN [sup |-> c.sup, proc |-> c.proc, ret |-> FALSE, raised |-> TRUE,
                   sigs |-> c.sigs]
             ELSE [sup |-> [c.sup EXCEPT !.is_running = FALSE],
                   proc |-> c.proc, ret |-> TRUE, raised |-> FALSE,
                   sigs |-> c.sigs]

\* stop: nothing when not running; otherwise the cleanup, is_running = False,
\* True; an exception of the cleanup is caught and False returned, so nothing
\* is raised to the caller.
stop(s, p, out) ==
    IF ~s.is_running
    THEN [sup |-> s, proc |-> p, ret |-> TRUE, raised |-> FALSE, sigs |-> <<>>]
    ELSE LET c == _cleanup_process(s, p, out)
         IN  IF c.raised
             THEN [sup |-> c.sup, proc |-> c.proc, ret |-> FALSE, raised |-> FALSE,
                   sigs |-> c.sigs]
             ELSE [sup |-> [c.sup EXCEPT !.is_running = FALSE],
                   proc |-> c.proc, ret |-> TRUE, raised |-> FALSE,
                   sigs |-> c.sigs]

\* the readiness loop without the poll of the process
_wait_without_poll(p, elapsed, answered) ==
    IF elapsed >= StartTimeout THEN "timeout"
    ELSE IF answered THEN "ready" ELSE "wait"

\* the readiness loop as "while True": no test of the time that has passed
_wait_without_timeout(p, elapsed, answered) ==
    IF p # "alive" THEN "exited"
    ELSE IF answered THEN "ready" ELSE "wait"

\* _wait_for_server_ready, one pass of the loop elapsed ticks after it began:
\* the loop is over -> False; poll() is not None -> False; GET /status
\* answered 200 -> True; otherwise sleep and go round
_wait_for_server_ready(p, elapsed, answered) ==
    IF elapsed >= StartTimeout THEN "timeout"
    ELSE IF p # "alive" THEN "exited"
    ELSE IF answered THEN "ready" ELSE "wait"

\* is_alive that drops the handle of an exited process
is_alive_forgets(s, p, answered) ==
    IF ~s.process THEN [sup |-> s, ret |-> FALSE]
    ELSE IF p # "alive"
    THEN [sup |-> [s EXCEPT !.is_running = FALSE, !.process = FALSE], ret |-> FALSE]
    ELSE [sup |-> s, ret |-> answered]

\* is_alive: no handle -> False; poll() is not None -> is_running = False,
\* False; otherwise whether GET /status answered 200
is_alive(s, p, answered) ==
    IF ~s.process THEN [sup |-> s, ret |-> FALSE]
    ELSE IF p # "alive" THEN [sup |-> [s EXCEPT !.is_running = FALSE], ret |-> FALSE]
    ELSE [sup |-> s, ret |-> answered]

\* ---------------------------------------------------- session_pool.py

\* the first port of the list, without the test against used
_get_next_port_unchecked(used) == port_range_start

\* the last port of the list not in used
_get_last_available_port(used) ==
    LET free == {p \in available_ports : p \notin used}
    IN  IF free = {} THEN NoPort
        ELSE CHOOSE p \in free : \A q \in free : p >= q

\* _get_next_available_port: the first port of the ascending list not in used
_get_next_available_port(used) ==
    LET free == {p \in available_ports : p \notin used}
    IN  IF free = {} THEN NoPort
        ELSE CHOOSE p \in free : \A q \in free : p <= q

\* the early returns with the session count compared by > instead of >=
create_refused_above(P) ==
    \/ Cardinality(DOMAIN P.sessions) > max_sessions
    \/ _get_next_available_port(P.used_ports) = NoPort

\* the two early returns of create_session
create_refused(P) ==
    \/ Cardinality(DOMAIN P.sessions) >= max_sessions
    \/ _get_next_available_port(P.used_ports) = NoPort

\* the record inserted without the port being marked
create_insert_no_mark(P, id) ==
    [P EXCEPT !.sessions = Put(@, id, [idle |-> 0]),
              !.sup = [@ EXCEPT ![id].is_running = TRUE]]

\* create_session after start() returned True: port marked, record inserted
\* with last_used = time.time()
create_insert(P, id) ==
    [P EXCEPT !.used_ports = @ \cup {P.sup[id].port},
              !.sessions = Put(@, id, [idle |-> 0]),
              !.sup = [@ EXCEPT ![id].is_running = TRUE]]

\* the failure path with the chosen port left marked
create_failed_keeps_port(P, id, out) ==
    [P EXCEPT !.used_ports = @ \cup {P.sup[id].port},
              !.sup = [@ EXCEPT ![id] = NoSup],
              !.procs = [@ EXCEPT ![id] = "none"]]

\* create_session after start() returned False (lines 84-86): start() ran
\* _cleanup_process, the port was never marked, no record is built and the
\* supervisor is dropped with the frame
create_failed(P, id, out) ==
    LET c == _cleanup_process(P.sup[id], P.procs[id], out)
    IN  [P EXCEPT !.sup = [@ EXCEPT ![id] = NoSup],
                  !.procs = [@ EXCEPT ![id] = "none"],
                  !.orphans = Drop(@, P.sup[id].port, c.proc)]

\* get_session without the refresh of last_used
get_session_no_refresh(S, id) == S

\* get_session: last_used = time.time() on a hit
get_session(S, id) ==
    IF id \in DOMAIN S THEN [S EXCEPT ![id].idle = 0] ELSE S

\* delete_session that, for an id without a record, frees the lowest used
\* port all the same
delete_session_frees(P, id, out) ==
    IF id \notin DOMAIN P.sessions
    THEN [pool |-> [P EXCEPT !.used_ports =
                       @ \ {p \in @ : \A q \in @ : p <= q}],
          call |-> [op |-> "delete", id |-> id, port |-> NoPort, found |-> FALSE,
                    stop |-> "none", result |-> FALSE]]
    ELSE LET st == stop(P.sup[id], P.procs[id], out)
             port == P.sup[id].port
         IN  [pool |-> [sessions |-> Remove(P.sessions, id),
                        used_ports |-> P.used_ports \ {port},
                        sup |-> [P.sup EXCEPT ![id] = NoSup],
                        procs |-> [P.procs EXCEPT ![id] = "none"],
                        orphans |-> Drop(P.orphans, port, st.proc)],
              call |-> [op |-> "delete", id |-> id, port |-> port, found |-> TRUE,
                        stop |-> IF st.ret THEN "ok" ELSE "fail", result |-> TRUE,
                        sigs |-> st.sigs]]

\* the port stays in the set
keep_port(used, port) == used

\* delete_session's "if port in self._used_ports: self._used_ports.remove(port)"
free_port(used, port) == used \ {port}

\* delete_session, with the outcome of the supervisor's stop: not found ->
\* False; stop (its result is not looked at), port freed, record deleted, True;
\* an exception out of stop -> False with the record and the port kept.  The
\* record held the only reference to the supervisor: the object goes with it.
\* sigs of the call are the signals the stop sent to the process group.
delete_session(P, id, out) ==
    IF id \notin DOMAIN P.sessions
    THEN [pool |-> P,
          call |-> [op |-> "delete", id |-> id, port |-> NoPort, found |-> FALSE,
                    stop |-> "none", result |-> FALSE]]
    ELSE LET st == stop(P.sup[id], P.procs[id], out)
             port == P.sup[id].port
         IN  IF st.raised
             THEN [pool |-> [P EXCEPT !.sup[id] = st.sup, !.procs[id] = st.proc],
                   call |-> [op |-> "delete", id |-> id, port |-> port,
                             found |-> TRUE, stop |-> "raised", result |-> FALSE,
                             sigs |-> st.sigs]]
             ELSE
             [pool |-> [sessions |-> Remove(P.sessions, id),
                        used_ports |-> free_port(P.used_ports, port),
                        sup |-> [P.sup EXCEPT ![id] = NoSup],
                        procs |-> [P.procs EXCEPT ![id] = "none"],
                        orphans |-> Drop(P.orphans, port, st.proc)],
              call |-> [op |-> "delete", id |-> id, port |-> port, found |-> TRUE,
                        stop |-> IF st.ret THEN "ok" ELSE "fail", result |-> TRUE,
                        sigs |-> st.sigs]]

\* the stop of this delete blocks in process.wait: a running supervisor whose
\* process is alive and whose group took the SIGTERM
stop_waits(P, id, out) ==
    /\ id \in DOMAIN P.sessions
    /\ P.sup[id].is_running
    /\ P.sup[id].process
    /\ P.procs[id] = "alive"
    /\ out = "ok"

\* shutdown_all: delete_session for every id of the snapshot, in dict order
RECURSIVE shutdown_all(_, _, _)
shutdown_all(P, ids, outs) ==
    IF ids = <<>> THEN [pool |-> P, calls |-> <<>>]
    ELSE LET d == delete_session(P, Head(ids), outs[Head(ids)])
             rest == shutdown_all(d.pool, Tail(ids), outs)
         IN  [pool |-> rest.pool, calls |-> <<d.call>> \o rest.calls]

\* the expiry test with >= in place of >
expired_sessions_at(S, lag) ==
    {i \in DOMAIN S : S[i].idle - lag >= session_timeout}

\* the condition of the eviction sweep, current_time being lag ticks old:
\* current_time - last_used > session_timeout
expired_sessions(S, lag) ==
    {i \in DOMAIN S : S[i].idle - lag > session_timeout}

\* health_check: under the lock, is_alive of the supervisor of every record
\* (ok: the ids whose backend answers GET /status with 200), then the report.
\* What is_alive does to a supervisor stays.
health_report(P, healthy) ==
    [total_sessions |-> Cardinality(DOMAIN P.sessions),
     healthy_sessions |-> Cardinality(healthy),
     unhealthy_sessions |-> DOMAIN P.sessions \ healthy,
     available_ports |-> Cardinality(available_ports) - Cardinality(P.used_ports),
     used_ports |-> P.used_ports]

\* a health check that removes the sessions it finds unhealthy
health_check_evicts(P, ok) ==
    LET healthy == {i \in DOMAIN P.sessions : is_alive(P.sup[i], P.procs[i], i \in ok).ret}
        gone == DOMAIN P.sessions \ healthy
    IN  [pool |-> [P EXCEPT !.sessions = [i \in healthy |-> @[i]],
                            !.used_ports = @ \ {P.sup[i].port : i \in gone}],
         report |-> health_report(P, healthy)]

health_check(P, ok) ==
    LET healthy == {i \in DOMAIN P.sessions : is_alive(P.sup[i], P.procs[i], i \in ok).ret}
    IN  [pool |-> [P EXCEPT !.sup =
                      [i \in Ids |->
                          IF i \in DOMAIN P.sessions
                          THEN is_alive(P.sup[i], P.procs[i], i \in ok).sup
                          ELSE P.sup[i]]],
         report |-> health_report(P, healthy)]

\* the exception leaves _cleanup_expired_sessions: the thread ends
cleanup_exits(c) ==
    [c EXCEPT !.pc = "dead", !.expired = <<>>, !.errors = @ + 1]

\* the except clause of the eviction loop (lines 203-204): the error is
\* logged and the while loop goes round, to time.sleep(60)
cleanup_except(c) ==
    [c EXCEPT !.pc = "sleep", !.sleep_left = CleanupInterval, !.lag = 0,
              !.expired = <<>>, !.errors = @ + 1]

\* ---------------------------------------------------------- gateway.py

\* what the backend may answer to the forwarded POST /session
Upstream ==
    [kind : {"status"}, code : {200, 404, 500}]
        \cup [kind : {"RequestError", "Exception"}, code : {0}]

\* the except clauses of the create_session route (lines 98-107):
\* httpx.RequestError -> 503, any other Exception -> 500
create_route_except(exc) == IF exc = "RequestError" THEN 503 ELSE 500

\* the status the create_session route answers with.  The two HTTPExceptions
\* are raised inside the try block and HTTPException is an Exception.
post_status(kind, code) ==
    IF kind = "none" THEN create_route_except("HTTPException")
    ELSE IF kind = "status" /\ code = 200 THEN 200
    ELSE IF kind = "status" THEN create_route_except("HTTPException")
    ELSE create_route_except(kind)

\* the compensation of the non-200 branch alone
compensates_status_only(kind) == kind = "status"

\* the outcomes of the forwarded create after which the route calls
\* delete_session before it answers: a non-200 status (line 83), a
\* RequestError (line 100), any other exception (line 105)
compensates(kind) == kind \in {"status", "RequestError", "Exception"}

\* 200 whatever the pool's delete returned
delete_status_ok(deleted) == 200

\* the status of the delete_session route after the pool's delete
delete_status(deleted) == IF deleted THEN 200 ELSE 500

\* the requests under /session/{id}/: method, the rest of the path, body
Requests ==
    {[method |-> "GET", tail |-> "info", body |-> ""],
     [method |-> "GET", tail |-> "url", body |-> ""],
     [method |-> "POST", tail |-> "url", body |-> "{}"]}

\* the routes whose path starts with /session/{session_id}/, in the order in
\* which _setup_routes registers them; tail "*" is the {path:path} parameter
SessionRoutes ==
    <<[handler |-> "proxy_to_appium",
       methods |-> {"GET", "POST", "PUT", "DELETE", "PATCH"}, tail |-> "*"],
      [handler |-> "get_session_info", methods |-> {"GET"}, tail |-> "info"]>>

\* the router hands a request to the first registered route whose path and
\* method match it
Dispatch(method, tail) ==
    LET hits == {k \in 1..Len(SessionRoutes) :
                    /\ method \in SessionRoutes[k].methods
                    /\ SessionRoutes[k].tail \in {"*", tail}}
    IN  IF hits = {} THEN "none"
        ELSE SessionRoutes[CHOOSE k \in hits : \A j \in hits : k <= j].handler

\* get_service_url: f"http://127.0.0.1:{self.port}"
get_service_url(s) == [host |-> "127.0.0.1", port |-> s.port]

\* the target without the /session prefix
target_url_bare(session_url, path) ==
    [host |-> session_url.host, port |-> session_url.port, path |-> <<path>>]

\* target_url = f"{session_url}/session/{path}"
target_url(session_url, path) ==
    [host |-> session_url.host, port |-> session_url.port,
     path |-> <<"session", path>>]

\* header names as a client may write them, and str.lower of each
HeaderNames == {"Host", "host", "Connection", "Accept", "accept", "X-Id"}

Lower(name) ==
    CASE name \in {"Host", "host"} -> "host"
      [] name = "Connection" -> "connection"
      [] name \in {"Accept", "accept"} -> "accept"
      [] name = "X-Id" -> "x-id"
      [] OTHER -> name

HeaderValues == {"a", "b"}

\* the header lines of a request, in the order sent
HeaderLines ==
    UNION {[1..n -> [name : HeaderNames, value : HeaderValues]] : n \in 0..MaxHeaders}

NoHeaders == [incoming |-> <<>>, outbound |-> <<>>, sent |-> FALSE]

excluded_headers == {"host", "content-length", "connection", "upgrade"}

\* request.headers: the lines as the server hands them over, names in lower
\* case, order and repetitions kept
request_headers(lines) ==
    [k \in DOMAIN lines |-> [name |-> Lower(lines[k].name), value |-> lines[k].value]]

\* dict(request.headers): one entry for each name, with the value that
\* indexing the headers by that name gives, the one of its first line
dict_headers(h) ==
    [n \in {h[k].name : k \in DOMAIN h} |->
        h[CHOOSE k \in DOMAIN h :
             h[k].name = n /\ \A j \in DOMAIN h : h[j].name = n => k <= j].value]

\* {k: v for k, v in headers.items() if k.lower() not in excluded_headers}
drop_excluded(d) ==
    [n \in {m \in DOMAIN d : Lower(m) \notin excluded_headers} |-> d[n]]

\* the headers proxy_to_appium passes to client.request
proxy_headers(lines) == drop_excluded(dict_headers(request_headers(lines)))

\* the status proxy_to_appium answers with: the backend's own, 503 after a
\* RequestError, 500 after any other exception
proxy_status(kind, code) ==
    IF kind = "status" THEN code
    ELSE IF kind = "RequestError" THEN 503 ELSE 500

StopOutcomes == {"ok", "fail"}

\* how the best-effort DELETE <backend>/session of the delete route ended: an
\* answer of any status, or an exception, which the route logs (lines 117-123)
BestEffort(caller) ==
    IF caller = "delete" THEN {"status", "RequestError"} ELSE {"none"}

CreateNone ==
    [op |-> "create", id |-> NoId, port |-> NoPort, found |-> FALSE,
     stop |-> "none", result |-> FALSE]

\* delete_session(None) of the route's except clause after create returned None
DeleteNone ==
    [op |-> "delete", id |-> NoId, port |-> NoPort, found |-> FALSE,
     stop |-> "none", result |-> FALSE]

PostResp(r, status, created) ==
    [op |-> "post", status |-> status, id |-> r.id, created |-> created,
     upstream |-> r.upstream, code |-> r.code, clean |-> r.clean,
     before |-> r.before, before_ports |-> r.before_ports, target |-> NoTarget]

DeleteResp(id, status) ==
    [NoResp EXCEPT !.op = "delete", !.status = status, !.id = id]

\* the registry was changed under the POST requests that await their backend
Disturb(ps, P) ==
    IF DOMAIN P.sessions = DOMAIN sessions /\ P.used_ports = used_ports THEN ps
    ELSE [i \in DOMAIN ps |->
            [ps[i] EXCEPT !.clean = FALSE, !.before = {}, !.before_ports = {}]]

SetPool(P) ==
    /\ sessions' = P.sessions
    /\ used_ports' = P.used_ports
    /\ sup' = P.sup
    /\ procs' = P.procs
    /\ orphans' = P.orphans

\* the main thread is in the event loop and the registry lock is free
MainFree == hub = "running" /\ main.pc = "loop" /\ lock = "none"

\* ------------------------------------------------------------ actions

\* the hub after SessionPool.__init__ and AppiumGateway.__init__
InitHub ==
    /\ max_sessions \in 1..MaxSessions
    /\ port_range_end \in port_range_start..(port_range_start + MaxPorts - 1)
    /\ sessions = << >>
    /\ used_ports = {}
    /\ lock = "none"
    /\ sup = [i \in Ids |-> NoSup]
    /\ procs = [i \in Ids |-> "none"]
    /\ orphans = {}
    /\ next_id = 1
    /\ main = Loop
    /\ posts = << >>
    /\ deletes = {}
    /\ proxies = {}
    /\ cleanup = [pc |-> "sleep", sleep_left |-> CleanupInterval, lag |-> 0,
                  expired |-> <<>>, errors |-> 0]
    /\ hub = "running"
    /\ calls = NoCall
    /\ resp = NoResp
    /\ stopped = {}

Init ==
    /\ InitHub
    /\ hdr = NoHeaders

\* create_session up to the point where it waits in start(): the early
\* returns, the uuid, the supervisor's constructor and the spawn.  caller is
\* "post" for the POST /session route, "create" for a bare call of the pool.
\* A uuid that names no supervisor leaves no trace: the next call draws it.
CreateSession(caller) ==
    /\ MainFree
    /\ LET me == IF caller = "post"
                 THEN [Loop EXCEPT !.op = "post", !.clean = TRUE,
                                   !.before = DOMAIN sessions,
                                   !.before_ports = used_ports]
                 ELSE [Loop EXCEPT !.op = "create"]
           \* create_session returned None; the route's except clause follows
           none_calls == IF caller = "post" THEN <<CreateNone, DeleteNone>>
                         ELSE <<CreateNone>>
           none_resp == IF caller = "post"
                        THEN PostResp(me, post_status("none", 0), FALSE)
                        ELSE NoResp
       IN
       \/ \* max_sessions reached, or no free port
          /\ create_refused(Pool)
          /\ calls' = none_calls
          /\ resp' = none_resp
          /\ UNCHANGED <<lock, sup, procs, next_id, main>>
       \/ \* AppiumServerManager(...) raises (makedirs, FileHandler), or Popen
          \* does: start() has no process to clean up and returns False
          /\ ~create_refused(Pool)
          /\ calls' = none_calls
          /\ resp' = none_resp
          /\ UNCHANGED <<lock, sup, procs, next_id, main>>
       \/ \* spawned: start() polls for readiness under both locks
          /\ ~create_refused(Pool)
          /\ next_id <= MaxIds
          /\ next_id' = next_id + 1
          /\ sup' = [sup EXCEPT ![next_id] =
                        [port |-> _get_next_available_port(used_ports),
                         is_running |-> FALSE, process |-> TRUE]]
          /\ procs' = [procs EXCEPT ![next_id] = "alive"]
          /\ lock' = "main"
          /\ main' = [me EXCEPT !.pc = "starting", !.id = next_id]
          /\ calls' = NoCall
          /\ resp' = NoResp
    /\ UNCHANGED <<hdr, stopped, max_sessions, port_range_end, proxies,
                   sessions, used_ports, orphans,
                   posts, deletes, cleanup, hub>>

\* start() returns and create_session with it; on success the route goes on to
\* get_session_url and awaits the backend's answer to the forwarded create.
StartReturns ==
    /\ hub = "running"
    /\ main.pc = "starting"
    /\ LET id == main.id IN
       \/ \* GET /status answered 200 before the timeout
          /\ _wait_for_server_ready(procs[id], main.elapsed, TRUE) = "ready"
          /\ LET P == create_insert(Pool, id) IN
             /\ SetPool(IF main.op = "post"
                        THEN [P EXCEPT !.sessions = get_session(@, id)]
                        ELSE P)
             /\ posts' = IF main.op = "post"
                         THEN Put(Disturb(posts, P), id,
                                  [clean |-> main.clean, before |-> main.before,
                                   before_ports |-> main.before_ports])
                         ELSE Disturb(posts, P)
             /\ calls' = <<[op |-> "create", id |-> id, port |-> sup[id].port,
                            found |-> FALSE, stop |-> "none", result |-> TRUE]>>
             /\ resp' = NoResp
       \/ \* the process exited, or the timeout elapsed: cleanup, False, None
          /\ \E out \in StopOutcomes :
               /\ _wait_for_server_ready(procs[id], main.elapsed, FALSE)
                      \in {"exited", "timeout"}
               /\ procs[id] # "alive" => out = "ok"
               /\ SetPool(create_failed(Pool, id, out))
          /\ calls' = IF main.op = "post" THEN <<CreateNone, DeleteNone>>
                      ELSE <<CreateNone>>
          /\ resp' = IF main.op = "post"
                     THEN PostResp([main EXCEPT !.id = NoId],
                                   post_status("none", 0), FALSE)
                     ELSE NoResp
          /\ UNCHANGED posts
    /\ main' = Loop
    /\ lock' = "none"
    /\ UNCHANGED <<hdr, stopped, max_sessions, port_range_end, proxies, next_id,
                   deletes, cleanup, hub>>

\* the backend answered the forwarded create (or the call failed)
PostForwarded(id) ==
    /\ MainFree
    /\ id \in DOMAIN posts
    /\ \E up \in Upstream :
         LET me == [Loop EXCEPT !.op = "post", !.id = id,
                                !.upstream = up.kind, !.code = up.code,
                                !.status = post_status(up.kind, up.code),
                                !.clean = posts[id].clean,
                                !.before = posts[id].before,
                                !.before_ports = posts[id].before_ports]
         IN  IF up.kind = "status" /\ up.code = 200
             THEN /\ posts' = Remove(posts, id)
                  /\ calls' = NoCall
                  /\ resp' = PostResp(me, me.status, TRUE)
                  /\ UNCHANGED <<sessions, used_ports, lock, sup, procs,
                                 orphans, main>>
             ELSE IF ~compensates(up.kind)
             THEN /\ posts' = Remove(posts, id)
                  /\ calls' = NoCall
                  /\ resp' = PostResp(me, me.status, TRUE)
                  /\ UNCHANGED <<sessions, used_ports, lock, sup, procs,
                                 orphans, main>>
             ELSE \E out \in StopOutcomes :
                    IF stop_waits(Pool, id, out)
                    THEN /\ procs' = [procs EXCEPT ![id] = "killed"]
                         /\ lock' = "main"
                         /\ main' = [me EXCEPT !.pc = "stopping"]
                         /\ posts' = Remove(posts, id)
                         /\ calls' = NoCall
                         /\ resp' = NoResp
                         /\ UNCHANGED <<sessions, used_ports, sup, orphans>>
                    ELSE LET d == delete_session(Pool, id, out) IN
                         /\ SetPool(d.pool)
                         /\ posts' = Disturb(Remove(posts, id), d.pool)
                         \* a non-200 answer: deleted at line 83 and again in
                         \* the except clause that catches the HTTPException
                         /\ calls' = IF up.kind = "status"
                                     THEN <<d.call, [DeleteNone EXCEPT !.id = id]>>
                                     ELSE <<d.call>>
                         /\ resp' = PostResp(me, me.status, TRUE)
                         /\ UNCHANGED <<lock, main>>
    /\ UNCHANGED <<hdr, stopped, max_sessions, port_range_end, proxies, next_id,
                   deletes, cleanup, hub>>

\* DELETE /session/{id} up to the await of the best-effort DELETE to the backend
DeleteRoute(id) ==
    /\ MainFree
    /\ id \notin deletes
    /\ IF id \in DOMAIN sessions
       THEN /\ sessions' = get_session(sessions, id)
            /\ deletes' = deletes \cup {id}
            /\ resp' = NoResp
       ELSE /\ resp' = DeleteResp(id, 404)
            /\ UNCHANGED <<sessions, deletes>>
    /\ calls' = NoCall
    /\ UNCHANGED <<hdr, stopped, max_sessions, port_range_end, proxies,
                   used_ports, lock, sup, procs,
                   orphans, next_id, main, posts, cleanup, hub>>

\* SessionPool.delete_session(id): called by the DELETE route once the
\* best-effort DELETE returned or failed (caller = "delete"), or bare
\* (caller = "pool").  A stop that waits for the process keeps both locks.
DeleteSession(caller, id) ==
    /\ MainFree
    /\ caller = "delete" => id \in deletes
    /\ deletes' = deletes \ {id}
    /\ \E out \in StopOutcomes, be \in BestEffort(caller) :
         IF stop_waits(Pool, id, out)
         THEN /\ procs' = [procs EXCEPT ![id] = "killed"]
              /\ lock' = "main"
              /\ main' = [Loop EXCEPT !.pc = "stopping", !.op = caller, !.id = id,
                                      !.upstream = be]
              /\ calls' = NoCall
              /\ resp' = NoResp
              /\ UNCHANGED <<sessions, used_ports, sup, orphans, posts>>
         ELSE LET d == delete_session(Pool, id, out) IN
              /\ SetPool(d.pool)
              /\ posts' = Disturb(posts, d.pool)
              /\ calls' = <<d.call>>
              /\ resp' = IF caller = "delete"
                         THEN [DeleteResp(id, delete_status(d.call.result))
                                  EXCEPT !.upstream = be]
                         ELSE NoResp
              /\ UNCHANGED <<lock, main>>
    /\ UNCHANGED <<hdr, stopped, max_sessions, port_range_end, proxies, next_id,
                   cleanup, hub>>

\* process.wait returned: the rest of stop() and of delete_session, and the
\* route's answer
StopFinished ==
    /\ hub = "running"
    /\ main.pc = "stopping"
    /\ LET d == delete_session(Pool, main.id, "ok") IN
       /\ SetPool(d.pool)
       /\ posts' = Disturb(posts, d.pool)
       /\ calls' = IF main.op = "post" /\ main.upstream = "status"
                   THEN <<d.call, [DeleteNone EXCEPT !.id = main.id]>>
                   ELSE <<d.call>>
       /\ resp' = IF main.op = "post" THEN PostResp(main, main.status, TRUE)
                  ELSE IF main.op = "delete"
                  THEN [DeleteResp(main.id, delete_status(d.call.result))
                           EXCEPT !.upstream = main.upstream]
                  ELSE NoResp
    /\ main' = Loop
    /\ lock' = "none"
    /\ UNCHANGED <<hdr, stopped, max_sessions, port_range_end, proxies, next_id,
                   deletes, cleanup, hub>>

\* SessionPool.get_session(id), as the proxy and info routes call it
GetSession(id) ==
    /\ MainFree
    /\ sessions' = get_session(sessions, id)
    /\ calls' = <<[op |-> "get", id |-> id, port |-> NoPort,
                   found |-> id \in DOMAIN sessions, stop |-> "none",
                   result |-> id \in DOMAIN sessions]>>
    /\ resp' = NoResp
    /\ UNCHANGED <<hdr, stopped, max_sessions, port_range_end, proxies,
                   used_ports, lock, sup, procs,
                   orphans, next_id, main, posts, deletes, cleanup, hub>>

\* a request under /session/{id}/ from its dispatch to its first await or
\* its answer.  proxy_to_appium: lookup, 404, or the target URL and the wait
\* for the outbound call.  get_session_info: lookup, 404, or the view, for
\* which it calls is_alive.
Request(method, id, tail, body) ==
    /\ MainFree
    /\ LET handler == Dispatch(method, tail) IN
       IF handler = "none"
       THEN /\ resp' = [NoResp EXCEPT !.op = handler, !.status = 405, !.id = id]
            /\ calls' = NoCall
            /\ UNCHANGED <<sessions, sup, proxies>>
       ELSE /\ sessions' = get_session(sessions, id)
            /\ calls' = <<[op |-> "get", id |-> id, port |-> NoPort,
                           found |-> id \in DOMAIN sessions, stop |-> "none",
                           result |-> id \in DOMAIN sessions]>>
            /\ IF id \notin DOMAIN sessions
               THEN /\ resp' = [NoResp EXCEPT !.op = handler, !.status = 404,
                                              !.id = id]
                    /\ UNCHANGED <<sup, proxies>>
               ELSE IF handler = "proxy_to_appium"
               THEN /\ Cardinality(proxies) < MaxInFlight
                    /\ proxies' = proxies \cup
                          {[id |-> id, method |-> method, body |-> body,
                            url |-> target_url(get_service_url(sup[id]), tail)]}
                    /\ resp' = NoResp
                    /\ UNCHANGED sup
               ELSE /\ sup' = [sup EXCEPT ![id] =
                                  is_alive(sup[id], procs[id], TRUE).sup]
                    /\ resp' = [NoResp EXCEPT !.op = handler, !.status = 200,
                                              !.id = id]
                    /\ UNCHANGED proxies
    /\ UNCHANGED <<hdr, stopped, max_sessions, port_range_end, used_ports, lock,
                   procs, orphans,
                   next_id, main, posts, deletes, cleanup, hub>>

\* the outbound call of proxy_to_appium returned or raised: the answer.  The
\* handler awaits request.body() and then the call, so other handlers and
\* the eviction thread run between its lookup and this step; an answer
\* comes from whatever listens on the port of the URL when the call is made.
ProxyForwarded(e) ==
    /\ MainFree
    /\ e \in proxies
    /\ proxies' = proxies \ {e}
    /\ \E up \in Upstream :
         resp' = [NoResp EXCEPT !.op = "proxy_to_appium", !.id = e.id,
                                !.upstream = up.kind, !.code = up.code,
                                !.status = proxy_status(up.kind, up.code),
                                !.target = [port |-> e.url.port,
                                            path |-> e.url.path,
                                            method |-> e.method,
                                            body |-> e.body]]
    /\ calls' = NoCall
    /\ UNCHANGED <<hdr, stopped, max_sessions, port_range_end, sessions,
                   used_ports, lock, sup,
                   procs, orphans, next_id, main, posts, deletes, cleanup, hub>>

\* what killpg and wait may do in a stop or a cleanup
KillOutcomes == {"ok", "timeout", "gone", "fail"}

\* the record of a call of a supervisor's method: before is the supervisor
\* as the call found it
ManagerCall(op, i, ret) ==
    [op |-> op, id |-> i, port |-> sup[i].port, found |-> TRUE, stop |-> "none",
     result |-> ret, before |-> sup[i], proc |-> procs[i], probe |-> "none",
     answered |-> FALSE, sigs |-> <<>>]

\* AppiumServerManager.start up to the readiness wait: True at once when
\* is_running; an exception of open or Popen -> cleanup, False; otherwise the
\* process is spawned and its handle replaces whatever self.process held
Start(i) ==
    /\ MainFree
    /\ IF sup[i].is_running
       THEN /\ calls' = <<ManagerCall("start", i, TRUE)>>
            /\ UNCHANGED <<sup, procs, orphans, main, stopped>>
       ELSE \/ \E out \in KillOutcomes :
                 LET c == _cleanup_process(sup[i], procs[i], out) IN
                 /\ sup' = [sup EXCEPT ![i] = c.sup]
                 /\ procs' = [procs EXCEPT ![i] = c.proc]
                 /\ stopped' = stopped \cup {i}
                 /\ calls' = <<[ManagerCall("start", i, FALSE) EXCEPT
                                  !.probe = "spawn", !.sigs = c.sigs]>>
                 /\ UNCHANGED <<orphans, main>>
            \/ /\ sup' = [sup EXCEPT ![i].process = TRUE]
               /\ procs' = [procs EXCEPT ![i] = "alive"]
               /\ orphans' = Drop(orphans, sup[i].port, procs[i])
               /\ main' = [Loop EXCEPT !.pc = "starting", !.op = "start", !.id = i]
               /\ calls' = NoCall
               /\ UNCHANGED stopped
    /\ resp' = NoResp
    /\ UNCHANGED <<max_sessions, port_range_end, sessions, used_ports, lock,
                   next_id, posts, deletes, proxies, cleanup, hub, hdr>>

\* a pass of the readiness loop after which the loop sleeps and goes round
ReadyWait ==
    /\ hub = "running"
    /\ main.pc = "starting"
    /\ main.op = "start"
    /\ _wait_for_server_ready(procs[main.id], main.elapsed, FALSE) = "wait"
    /\ main' = [main EXCEPT !.elapsed = @ + 1]
    /\ calls' = NoCall
    /\ resp' = NoResp
    /\ UNCHANGED <<max_sessions, port_range_end, sessions, used_ports, lock, sup,
                   procs, orphans, next_id, posts, deletes, proxies, cleanup, hub,
                   hdr, stopped>>

\* _wait_for_server_ready returned: is_running = True and True, or the
\* cleanup and False.  A cleanup that raises is caught by start's except
\* clause, which calls it again, without a handle by then.  The poll that
\* found the process exited has reaped it, so os.getpgid finds no such
\* process in the cleanup that follows.
StartDone ==
    /\ hub = "running"
    /\ main.pc = "starting"
    /\ main.op = "start"
    /\ \E answered \in BOOLEAN, out \in KillOutcomes :
         LET i == main.id
             w == _wait_for_server_ready(procs[i], main.elapsed, answered)
             c == _cleanup_process(sup[i], procs[i], out)
         IN  /\ w # "wait"
             /\ w = "exited" => out = "gone"
             /\ IF w = "ready"
                THEN /\ sup' = [sup EXCEPT ![i].is_running = TRUE]
                     /\ calls' = <<[ManagerCall("start", i, TRUE) EXCEPT
                                      !.probe = w, !.answered = answered]>>
                     /\ UNCHANGED <<procs, stopped>>
                ELSE /\ sup' = [sup EXCEPT ![i] = c.sup]
                     /\ procs' = [procs EXCEPT ![i] = c.proc]
                     /\ stopped' = stopped \cup {i}
                     /\ calls' = <<[ManagerCall("start", i, FALSE) EXCEPT
                                      !.probe = w, !.answered = answered,
                                      !.sigs = c.sigs]>>
    /\ main' = Loop
    /\ resp' = NoResp
    /\ UNCHANGED <<max_sessions, port_range_end, sessions, used_ports, lock,
                   orphans, next_id, posts, deletes, proxies, cleanup, hub, hdr>>

\* AppiumServerManager.stop
Stop(i) ==
    /\ MainFree
    /\ \E out \in KillOutcomes :
         LET st == stop(sup[i], procs[i], out) IN
         /\ sup' = [sup EXCEPT ![i] = st.sup]
         /\ procs' = [procs EXCEPT ![i] = st.proc]
         /\ stopped' = IF sup[i].is_running /\ ~st.sup.is_running
                       THEN stopped \cup {i} ELSE stopped
         /\ calls' = <<[ManagerCall("stop", i, st.ret) EXCEPT
                           !.stop = IF st.ret THEN "ok" ELSE "fail",
                           !.probe = out, !.sigs = st.sigs]>>
    /\ resp' = NoResp
    /\ UNCHANGED <<max_sessions, port_range_end, sessions, used_ports, lock,
                   orphans, next_id, main, posts, deletes, proxies, cleanup, hub,
                   hdr>>

\* AppiumServerManager.is_alive
IsAlive(i) ==
    /\ MainFree
    /\ \E answered \in BOOLEAN :
         LET a == is_alive(sup[i], procs[i], answered) IN
         /\ sup' = [sup EXCEPT ![i] = a.sup]
         /\ calls' = <<[ManagerCall("is_alive", i, a.ret) EXCEPT
                           !.answered = answered]>>
    /\ resp' = NoResp
    /\ UNCHANGED <<max_sessions, port_range_end, sessions, used_ports, lock,
                   procs,
                   orphans, next_id, main, posts, deletes, proxies, cleanup, hub,
                   hdr, stopped>>

\* proxy_to_appium prepares the headers of the outbound request
PrepareHeaders ==
    /\ ~hdr.sent
    /\ hdr' = [hdr EXCEPT !.outbound = proxy_headers(hdr.incoming), !.sent = TRUE]
    /\ UNCHANGED <<max_sessions, port_range_end, sessions, used_ports, lock,
                   sup,
                   procs, orphans, next_id, main, posts, deletes, proxies, cleanup,
                   hub, calls, resp, stopped>>

\* SessionPool.health_check (list_sessions calls is_alive on every record in
\* the same way and changes nothing else)
HealthCheck ==
    /\ MainFree
    /\ \E ok \in SUBSET DOMAIN sessions :
         LET h == health_check(Pool, ok) IN
         /\ SetPool(h.pool)
         /\ calls' = <<[op |-> "health", id |-> NoId, port |-> NoPort,
                        found |-> FALSE, stop |-> "none", result |-> TRUE,
                        report |-> h.report]>>
    /\ resp' = NoResp
    /\ UNCHANGED <<hdr, stopped, max_sessions, port_range_end, proxies, lock,
                   next_id, main, posts, deletes, cleanup, hub>>

\* get_session_count: len(self._sessions) under the lock; nothing changes
GetSessionCount ==
    /\ MainFree
    /\ calls' = NoCall
    /\ resp' = NoResp
    /\ UNCHANGED <<hdr, stopped, max_sessions, port_range_end, proxies,
                   sessions, used_ports, lock, sup,
                   procs, orphans, next_id, main, posts, deletes, cleanup, hub>>

\* the eviction thread wakes from time.sleep(60) and reads the clock
CleanupWake ==
    /\ hub = "running"
    /\ cleanup.pc = "sleep"
    /\ cleanup.sleep_left = 0
    /\ cleanup' = [cleanup EXCEPT !.pc = "lock", !.lag = 0]
    /\ calls' = NoCall
    /\ resp' = NoResp
    /\ UNCHANGED <<hdr, stopped, max_sessions, port_range_end, proxies,
                   sessions, used_ports, lock, sup,
                   procs, orphans, next_id, main, posts, deletes, hub>>

\* it takes the registry lock and collects the expired ids
CleanupCollect ==
    /\ hub = "running"
    /\ cleanup.pc = "lock"
    /\ lock = "none"
    /\ lock' = "cleanup"
    /\ cleanup' = [cleanup EXCEPT
                     !.pc = "sweep",
                     !.lag = 0,
                     !.expired = Ascending(expired_sessions(sessions, cleanup.lag))]
    /\ calls' = NoCall
    /\ resp' = NoResp
    /\ UNCHANGED <<hdr, stopped, max_sessions, port_range_end, proxies,
                   sessions, used_ports, sup, procs,
                   orphans, next_id, main, posts, deletes, hub>>

\* delete_session of the next expired id, still under the lock
CleanupDelete ==
    /\ hub = "running"
    /\ cleanup.pc = "sweep"
    /\ cleanup.expired # <<>>
    /\ \E out \in StopOutcomes :
         LET d == delete_session(Pool, Head(cleanup.expired), out) IN
         /\ SetPool(d.pool)
         /\ posts' = Disturb(posts, d.pool)
         /\ calls' = <<d.call>>
    /\ cleanup' = [cleanup EXCEPT !.expired = Tail(@)]
    /\ resp' = NoResp
    /\ UNCHANGED <<hdr, stopped, max_sessions, port_range_end, proxies, lock,
                   next_id, main, deletes, hub>>

\* the sweep is over: the lock is released and the thread sleeps again
CleanupSleep ==
    /\ hub = "running"
    /\ cleanup.pc = "sweep"
    /\ cleanup.expired = <<>>
    /\ lock' = "none"
    /\ cleanup' = [cleanup EXCEPT !.pc = "sleep", !.sleep_left = CleanupInterval,
                                  !.lag = 0, !.expired = <<>>]
    /\ calls' = NoCall
    /\ resp' = NoResp
    /\ UNCHANGED <<hdr, stopped, max_sessions, port_range_end, proxies,
                   sessions, used_ports, sup, procs,
                   orphans, next_id, main, posts, deletes, hub>>

\* an exception is raised inside the sweep and reaches the except clause of
\* the loop: the with block releases the lock on the way out and the ids
\* not yet deleted stay in the registry
CleanupRaise ==
    /\ hub = "running"
    /\ cleanup.pc = "sweep"
    /\ cleanup.errors < MaxErrors
    /\ lock' = "none"
    /\ cleanup' = cleanup_except(cleanup)
    /\ calls' = NoCall
    /\ resp' = NoResp
    /\ UNCHANGED <<hdr, stopped, max_sessions, port_range_end, proxies,
                   sessions, used_ports, sup, procs,
                   orphans, next_id, main, posts, deletes, hub>>

\* SIGINT or SIGTERM: _signal_handler runs on the main thread, on top of the
\* frame the main thread is in.  shutdown_all re-enters the registry lock when
\* the main thread holds it and waits for it when the eviction thread does.
\* When the interrupted frame is inside stop() of a session, the nested
\* delete_session of that session waits for the supervisor's plain Lock, which
\* the interrupted frame holds: the handler never returns.
SignalHandler ==
    /\ hub = "running"
    /\ lock # "cleanup"
    /\ \E outs \in [DOMAIN sessions -> StopOutcomes] :
         IF main.pc = "stopping"
         THEN LET ids == Ascending({i \in DOMAIN sessions : i < main.id})
                  d == shutdown_all(Pool, ids, outs)
              IN  /\ SetPool(d.pool)
                  /\ calls' = d.calls
                  /\ hub' = "hung"
         ELSE LET d == shutdown_all(Pool, Ascending(DOMAIN sessions), outs)
              IN  /\ SetPool(d.pool)
                  /\ calls' = d.calls
                  /\ hub' = "exited"
    /\ resp' = NoResp
    /\ UNCHANGED <<hdr, stopped, max_sessions, port_range_end, proxies, lock,
                   next_id, main, posts,
                   deletes, cleanup>>

\* a backend process exits by itself
BackendExits(id) ==
    /\ hub = "running"
    /\ sup[id].process
    /\ procs[id] = "alive"
    /\ procs' = [procs EXCEPT ![id] = "exited"]
    /\ calls' = NoCall
    /\ resp' = NoResp
    /\ UNCHANGED <<hdr, stopped, max_sessions, port_range_end, proxies,
                   sessions, used_ports, lock, sup,
                   orphans, next_id, main, posts, deletes, cleanup, hub>>

\* the eviction thread has a step it can take without waiting
CleanupReady ==
    \/ cleanup.pc = "sleep" /\ cleanup.sleep_left = 0
    \/ cleanup.pc = "lock" /\ lock = "none"
    \/ cleanup.pc = "sweep"

\* a tick of the clock.  Time passes while threads sleep or wait: not while
\* the eviction thread can run, not beyond the timeout of a start(), and not
\* during the short wait of a stop().
Tick ==
    /\ hub = "running"
    /\ ~CleanupReady
    /\ main.pc = "starting" => main.elapsed < StartTimeout
    /\ main.pc # "stopping"
    /\ sessions' = [i \in DOMAIN sessions |-> [idle |-> sessions[i].idle + 1]]
    /\ cleanup' = IF cleanup.pc = "sleep"
                  THEN [cleanup EXCEPT !.sleep_left = @ - 1]
                  ELSE [cleanup EXCEPT !.lag = @ + 1]
    /\ main' = IF main.pc = "starting" THEN [main EXCEPT !.elapsed = @ + 1] ELSE main
    /\ calls' = NoCall
    /\ resp' = NoResp
    /\ UNCHANGED <<hdr, stopped, max_sessions, port_range_end, proxies,
                   used_ports, lock, sup, procs,
                   orphans, next_id, posts, deletes, hub>>

\* the ids a caller may name: those of the registry, and one that is not in
\* it (every id without a record is treated alike)
Known == DOMAIN sessions \cup {NoId}

\* the ids a caller may ask to delete: every id the hub has issued, with or
\* without a record now, and one it never issued
Issued == {i \in 0..MaxIds : i < next_id}

\* The session pool under every sequence of calls the main thread can make of
\* it, with the eviction thread, the signal handler and the clock.
Next ==
    \/ CreateSession("create")
    \/ StartReturns
    \/ \E id \in Issued : DeleteSession("pool", id)
    \/ StopFinished
    \/ \E id \in Known : GetSession(id)
    \/ HealthCheck
    \/ GetSessionCount
    \/ CleanupWake
    \/ CleanupCollect
    \/ CleanupDelete
    \/ CleanupSleep
    \/ SignalHandler
    \/ \E id \in Ids : BackendExits(id)
    \/ Tick

Spec == Init /\ [][Next]_vars

\* The eviction thread beside a main thread that creates sessions and uses
\* them, with exceptions raised in the sweeps; the thread alone deletes.
EvictionNext ==
    \/ CreateSession("create")
    \/ StartReturns
    \/ \E id \in DOMAIN sessions : GetSession(id)
    \/ CleanupWake
    \/ CleanupCollect
    \/ CleanupDelete
    \/ CleanupRaise
    \/ CleanupSleep
    \/ Tick

\* The thread runs whenever it can; the clock advances; start() returns,
\* as it waits with a timeout.
EvictionSpec ==
    /\ Init
    /\ [][EvictionNext]_vars
    /\ WF_vars(CleanupWake)
    /\ WF_vars(CleanupCollect)
    /\ WF_vars(CleanupDelete)
    /\ WF_vars(CleanupSleep)
    /\ WF_vars(Tick)
    /\ WF_vars(StartReturns)

\* start() gives up: the readiness wait returned False, the cleanup ran and
\* create_session returned None
StartGivesUp ==
    /\ StartReturns
    /\ sessions' = sessions

\* create_session beside the eviction thread, with backends that exit by
\* themselves
CreateNext ==
    \/ CreateSession("create")
    \/ StartReturns
    \/ \E id \in Ids : BackendExits(id)
    \/ CleanupWake
    \/ CleanupCollect
    \/ CleanupDelete
    \/ CleanupSleep
    \/ Tick

\* The clock advances and the eviction thread runs whenever it can.  start()
\* returns False once its wait is over, which needs nothing from the
\* backend; whether and when a backend answers GET /status is left open.
CreateSpec ==
    /\ Init
    /\ [][CreateNext]_vars
    /\ WF_vars(StartGivesUp)
    /\ WF_vars(CleanupWake)
    /\ WF_vars(CleanupCollect)
    /\ WF_vars(CleanupDelete)
    /\ WF_vars(CleanupSleep)
    /\ WF_vars(Tick)

\* The routes of the gateway, each from one await to the next, in the time
\* before the eviction thread first wakes and with no signal delivered.
GatewayNext ==
    \/ CreateSession("post")
    \/ StartReturns
    \/ \E id \in Ids : PostForwarded(id)
    \/ \E id \in Known : DeleteRoute(id)
    \/ \E id \in Ids : DeleteSession("delete", id)
    \/ StopFinished
    \/ \E id \in Ids : BackendExits(id)

GatewaySpec == Init /\ [][GatewayNext]_vars

\* the requests under /session/{id}/ while sessions come and go
ProxyNext ==
    \/ CreateSession("create")
    \/ StartReturns
    \/ \E id \in Known : DeleteSession("pool", id)
    \/ StopFinished
    \/ \E r \in Requests, id \in Known : Request(r.method, id, r.tail, r.body)
    \/ \E e \in proxies : ProxyForwarded(e)

ProxySpec == Init /\ [][ProxyNext]_vars

\* supervisors built by AppiumServerManager(port, session_id), one for each
\* id, each on a port of its own, outside any pool
ManagerInit ==
    /\ max_sessions = MaxSessions
    /\ port_range_end = port_range_start + MaxPorts - 1
    /\ sessions = << >>
    /\ used_ports = {}
    /\ lock = "none"
    /\ sup = [i \in Ids |-> [port |-> port_range_start + i - 1,
                              is_running |-> FALSE, process |-> FALSE]]
    /\ procs = [i \in Ids |-> "none"]
    /\ orphans = {}
    /\ next_id = MaxIds + 1
    /\ main = Loop
    /\ posts = << >>
    /\ deletes = {}
    /\ proxies = {}
    /\ cleanup = [pc |-> "sleep", sleep_left |-> CleanupInterval, lag |-> 0,
                  expired |-> <<>>, errors |-> 0]
    /\ hub = "running"
    /\ calls = NoCall
    /\ resp = NoResp
    /\ hdr = NoHeaders
    /\ stopped = {}

ManagerNext ==
    \/ \E i \in Ids : Start(i)
    \/ ReadyWait
    \/ StartDone
    \/ \E i \in Ids : Stop(i)
    \/ \E i \in Ids : IsAlive(i)
    \/ \E i \in Ids : BackendExits(i)

ManagerSpec == ManagerInit /\ [][ManagerNext]_vars

\* the header preparation on every list of header lines
HeaderInit ==
    /\ InitHub
    /\ hdr \in [incoming : HeaderLines, outbound : {<<>>}, sent : {FALSE}]

HeaderNext == PrepareHeaders

HeaderSpec == HeaderInit /\ [][HeaderNext]_vars

\* ------------------------------------------------------------- claims

\* the number of ports of the configured range
PortRangeSize == port_range_end - port_range_start + 1

\* C1: in every reachable state no two live session records have the same
\* port, and used_ports is exactly the set of the ports of the live records,
\* so that there are as many records as used ports.
PortsUnique ==
    /\ \A i, j \in DOMAIN sessions : i # j => sup[i].port # sup[j].port
    /\ used_ports = {sup[i].port : i \in DOMAIN sessions}
    /\ Cardinality(DOMAIN sessions) = Cardinality(used_ports)

\* a second create_session has just returned its id: two live records
TwoLiveRecords ==
    /\ Cardinality(DOMAIN sessions) = 2
    /\ Len(calls) = 1
    /\ calls[1].op = "create"
    /\ calls[1].result

\* C2: in every reachable state the number of live session records is at most
\* min(max_sessions, port_range_end - port_range_start + 1).
SessionCeiling ==
    Cardinality(DOMAIN sessions) <= Min(max_sessions, PortRangeSize)

\* a create_session was refused with the registry at its ceiling
RefusedAtCeiling ==
    /\ calls = <<CreateNone>>
    /\ create_refused(Pool)
    /\ Cardinality(DOMAIN sessions) = Min(max_sessions, PortRangeSize)

\* C3: when a POST /session answers with a non-2xx status and no other request
\* changed the registry since it began, the registry holds exactly the records
\* and the used ports it held when the request began.
FailedPostRestoresRegistry ==
    (resp.op = "post" /\ resp.status \notin 200..299 /\ resp.clean)
        => (DOMAIN sessions = resp.before /\ used_ports = resp.before_ports)

\* a POST failed after its session was created, with another session live
FailedPostAfterCreate ==
    /\ resp.op = "post"
    /\ resp.status \notin 200..299
    /\ resp.clean
    /\ resp.created
    /\ resp.before # {}

\* C4: after a delete_session that returned True the port the record held is
\* not in used_ports, it is a port of the range, and it is the port the next
\* create_session is given whenever every lower port of the range is in use.
FreedPortIsReusable ==
    \A k \in 1..Len(calls) :
        (calls[k].op = "delete" /\ calls[k].result) =>
            /\ calls[k].port \notin used_ports
            /\ calls[k].port \in available_ports
            /\ (\A q \in available_ports : q < calls[k].port => q \in used_ports)
                   => _get_next_available_port(used_ports) = calls[k].port

\* a delete_session returned True and a create_session called now, with the
\* session count below max_sessions, is given the port it freed
FreedPortIsNext ==
    \E k \in 1..Len(calls) :
        /\ calls[k].op = "delete"
        /\ calls[k].result
        /\ ~create_refused(Pool)
        /\ _get_next_available_port(used_ports) = calls[k].port

\* C5: the registry lock is not held while a backend is being started or
\* while the exit of a backend process is waited for.
LockFreeWhileWaiting ==
    main.pc \in {"starting", "stopping"} => lock = "none"

\* C6: every delete_session of an id that is in the registry removes the
\* record and its port from used_ports and returns True, also when the
\* supervisor's stop fails.
DeleteAlwaysFrees ==
    \A k \in 1..Len(calls) :
        (calls[k].op = "delete" /\ calls[k].found) =>
            /\ calls[k].id \notin DOMAIN sessions
            /\ calls[k].port \notin used_ports
            /\ calls[k].result

\* a delete_session of a registered id whose stop returned False
DeleteWithFailedStop ==
    \E k \in 1..Len(calls) :
        /\ calls[k].op = "delete"
        /\ calls[k].found
        /\ calls[k].stop = "fail"

\* C7: when create_session returns None (max_sessions reached, no free port,
\* or the backend failed to start), POST /session answers with status 503.
NoneAnswers503 ==
    (resp.op = "post" /\ ~resp.created) => resp.status = 503

\* C8: when the backend answers the forwarded create with a non-200 status S,
\* the response of POST /session carries the status S.
UpstreamStatusSurfaced ==
    (resp.op = "post" /\ resp.upstream = "status" /\ resp.code # 200)
        => resp.status = resp.code

\* C9: when the hub has exited on SIGINT or SIGTERM, no backend process it
\* started is still running and no port is in used_ports.
NothingLeftAtExit ==
    hub = "exited" =>
        /\ \A i \in Ids : procs[i] # "alive"
        /\ orphans = {}
        /\ used_ports = {}

\* C10: a session that has not been used for more than session_timeout plus
\* one eviction cadence is not in the registry.
EvictionBound ==
    \A i \in DOMAIN sessions : sessions[i].idle <= session_timeout + CleanupInterval

\* C11: the eviction sweep removes a record only if it has been idle for
\* strictly more than session_timeout at the time of the sweep.
EvictsOnlyExpired ==
    [][\A i \in DOMAIN sessions :
          (lock = "cleanup" /\ i \notin DOMAIN sessions')
              => sessions[i].idle > session_timeout]_vars

\* the sweep has just deleted a record
SweepDeleted ==
    /\ lock = "cleanup"
    /\ Len(calls) = 1
    /\ calls[1].op = "delete"
    /\ calls[1].found

\* C12: get_session(id) sets last_used of the record to the current time when
\* id is in the registry and changes no record when it is not; last_used of a
\* record changes in no other call (only its distance to the clock grows, for
\* every record alike, when the clock ticks).
OnlyGetRefreshes ==
    [][/\ \A k \in 1..Len(calls') :
             calls'[k].op = "get" =>
                 sessions' = IF calls'[k].id \in DOMAIN sessions
                             THEN [sessions EXCEPT ![calls'[k].id].idle = 0]
                             ELSE sessions
       /\ \A i \in DOMAIN sessions \cap DOMAIN sessions' :
             sessions'[i].idle # sessions[i].idle =>
                 \/ \E k \in 1..Len(calls') :
                        calls'[k].op = "get" /\ calls'[k].id = i
                 \/ /\ calls' = NoCall
                    /\ \A j \in DOMAIN sessions :
                          j \in DOMAIN sessions'
                              /\ sessions'[j].idle = sessions[j].idle + 1]_vars

\* a get_session has just found a record while another one stays idle
RefreshedOne ==
    /\ Len(calls) = 1
    /\ calls[1].op = "get"
    /\ calls[1].found
    /\ sessions[calls[1].id].idle = 0
    /\ \E j \in DOMAIN sessions : sessions[j].idle > 0

\* C13: every port carries at most one live backend process: no supervisor
\* holds a live process on a port on which a process that an earlier
\* supervisor started is still running, and no two supervisors hold live
\* processes on the same port.
PortSingleOwner ==
    /\ \A i \in Ids : procs[i] = "alive" => sup[i].port \notin orphans
    /\ \A i, j \in Ids :
          (i # j /\ procs[i] = "alive" /\ procs[j] = "alive")
              => sup[i].port # sup[j].port

FailedCreateLeavesNothing ==
    [][/\ \A k \in 1..Len(calls') :
             (calls'[k].op = "create" /\ ~calls'[k].result) =>
                 /\ sessions' = sessions
                 /\ used_ports' = used_ports
                 /\ main.pc = "starting" => sup[main.id].port \notin used_ports'
                 /\ (main.pc = "loop" /\ ~create_refused(Pool)) =>
                        _get_next_available_port(used_ports) \notin used_ports'
       /\ \A i \in DOMAIN sessions' \ DOMAIN sessions :
             \E k \in 1..Len(calls') :
                 calls'[k].op = "create" /\ calls'[k].result /\ calls'[k].id = i]_vars

\* a create whose backend did not become ready has just returned None and its
\* supervisor is gone, another session being registered
StartFailedReturned ==
    /\ calls = <<CreateNone>>
    /\ next_id = 3
    /\ DOMAIN sessions = {1}
    /\ sup[2] = NoSup
    /\ Cardinality(used_ports) = 1

\* C18: the DELETE /session/{id} route.  An id without a record is answered
\* 404 and nothing is deleted; only an id that has a record goes on to the
\* best-effort DELETE; the answer that follows it is the outcome of the
\* registry's delete_session(id) alone, 200 when it returned True and 500
\* when it returned False, whether the best-effort DELETE was answered or
\* raised.
DeleteRouteAnswer ==
    [][/\ (deletes' \ deletes) \subseteq DOMAIN sessions
       /\ resp'.op = "delete" =>
             \/ /\ resp'.status = 404
                /\ resp'.id \notin DOMAIN sessions
                /\ calls' = NoCall
                /\ Pool' = Pool
             \/ /\ resp'.upstream \in {"status", "RequestError"}
                /\ Len(calls') = 1
                /\ calls'[1].op = "delete"
                /\ calls'[1].id = resp'.id
                /\ resp'.status = IF calls'[1].result THEN 200 ELSE 500
                /\ calls'[1].result => resp'.id \notin DOMAIN sessions']_vars

\* the route answered 200 although the best-effort DELETE raised
DeletedDespiteBackend ==
    /\ resp.op = "delete"
    /\ resp.status = 200
    /\ resp.upstream = "RequestError"
    /\ calls[1].result

InfoAnsweredByHub ==
    /\ \A e \in proxies : ~(e.method = "GET" /\ e.url.path = <<"session", "info">>)
    /\ ~(resp.target.method = "GET" /\ resp.target.path = <<"session", "info">>)

\* C19: the headers of the outbound request hold no header named host,
\* content-length, connection or upgrade in whatever letter case it was
\* sent, and hold every other header line of the request, with its value.
HeadersCopied ==
    hdr.sent =>
        /\ \A n \in DOMAIN hdr.outbound : Lower(n) \notin excluded_headers
        /\ \A k \in DOMAIN hdr.incoming :
              Lower(hdr.incoming[k].name) \notin excluded_headers =>
                  \E n \in DOMAIN hdr.outbound :
                      /\ Lower(n) = Lower(hdr.incoming[k].name)
                      /\ hdr.outbound[n] = hdr.incoming[k].value

\* C14: STOPPED is terminal.  A supervisor whose start failed, or on which
\* stop() took effect, is never running again and never holds a process
\* again, whatever is called on it afterwards.
StoppedIsTerminal ==
    \A i \in stopped : ~sup[i].is_running /\ ~sup[i].process

\* C21: the eviction thread never ends.  It is always sleeping, waiting for
\* the lock or sweeping, also after an exception reached the except clause
\* of its loop; it starts a sweep again and again; and a session that is
\* expired is in time evicted or used again.
EvictionGoesOn ==
    /\ [](cleanup.pc \in {"sleep", "lock", "sweep"})
    /\ []<>(cleanup.pc = "sweep")
    /\ \A i \in Ids :
          (i \in DOMAIN sessions /\ sessions[i].idle > session_timeout)
              ~> (i \notin DOMAIN sessions \/ sessions[i].idle <= session_timeout)

\* after an exception in an earlier sweep, a sweep has just evicted a session
\* although the stop of its backend failed
EvictedAfterError ==
    /\ cleanup.errors > 0
    /\ lock = "cleanup"
    /\ Len(calls) = 1
    /\ calls[1].op = "delete"
    /\ calls[1].found
    /\ calls[1].stop = "fail"
    /\ calls[1].id \notin DOMAIN sessions

\* C22: the report of health_check.  total_sessions is the number of
\* records, healthy_sessions and the unhealthy ids add up to it,
\* available_ports is the size of the port range less the number of used
\* ports, used_ports are the ports of the records; the call leaves every
\* record and every used port in place, the unhealthy ones too.
HealthReportExact ==
    [][\A k \in 1..Len(calls') :
          calls'[k].op = "health" =>
              LET r == calls'[k].report IN
              /\ r.total_sessions = Cardinality(DOMAIN sessions)
              /\ r.healthy_sessions + Cardinality(r.unhealthy_sessions)
                     = r.total_sessions
              /\ r.available_ports
                     = (port_range_end - port_range_start + 1) - Cardinality(used_ports)
              /\ r.used_ports = {sup[i].port : i \in DOMAIN sessions}
              /\ sessions' = sessions
              /\ used_ports' = used_ports
              /\ r.unhealthy_sessions \subseteq DOMAIN sessions'
              /\ \A i \in r.unhealthy_sessions : sup[i].port \in used_ports']_vars

\* a report with one healthy and one unhealthy session, whose process exited
OneUnhealthyReported ==
    /\ Len(calls) = 1
    /\ calls[1].op = "health"
    /\ calls[1].report.healthy_sessions = 1
    /\ \E i \in calls[1].report.unhealthy_sessions :
          i \in DOMAIN sessions /\ procs[i] = "exited"

\* C23: while delete_session is inside the stop() of the session's backend,
\* the record is already out of the registry and its port out of used_ports,
\* and the registry lock is held.
RemovedBeforeStop ==
    main.pc = "stopping" =>
        /\ lock = "main"
        /\ main.id \notin DOMAIN sessions
        /\ sup[main.id].port \notin used_ports

\* C24: delete_session of an id that has no record returns False, and a
\* step that makes no other pool call leaves the records, used_ports, the
\* supervisors and their processes as they were; in particular the port the
\* id once had stays with the session that holds it now.
UnknownDeleteChangesNothing ==
    [][/\ \A k \in 1..Len(calls') :
             (calls'[k].op = "delete" /\ ~calls'[k].found) => ~calls'[k].result
       /\ (/\ calls' # NoCall
           /\ \A k \in 1..Len(calls') :
                 calls'[k].op = "delete" /\ ~calls'[k].found)
              => /\ sessions' = sessions
                 /\ used_ports' = used_ports
                 /\ sup' = sup
                 /\ procs' = procs
                 /\ orphans' = orphans]_vars

\* session 1 was deleted, session 2 took its port, and delete_session(1) was
\* called again
OldIdDeletedAgain ==
    /\ calls = <<[op |-> "delete", id |-> 1, port |-> NoPort, found |-> FALSE,
                 stop |-> "none", result |-> FALSE]>>
    /\ DOMAIN sessions = {2}
    /\ sup[2].port = port_range_start
    /\ used_ports = {port_range_start}

\* C25: a create_session that returns an id was given the lowest port of
\* port_range_start..port_range_end that was not in used_ports; with no
\* record in the registry that is port_range_start.
LowestFreePort ==
    [][\A k \in 1..Len(calls') :
          (calls'[k].op = "create" /\ calls'[k].result) =>
              /\ calls'[k].port >= port_range_start
              /\ calls'[k].port <= port_range_end
              /\ calls'[k].port \notin used_ports
              /\ \A q \in port_range_start..(calls'[k].port - 1) : q \in used_ports
              /\ sessions = << >> => calls'[k].port = port_range_start
              /\ sup'[calls'[k].id].port = calls'[k].port]_vars

\* a create has just been given the second port of the range, the first one
\* being held by another session
SecondPortGiven ==
    /\ Len(calls) = 1
    /\ calls[1].op = "create"
    /\ calls[1].result
    /\ calls[1].port = port_range_start + 1
    /\ \E i \in DOMAIN sessions : sup[i].port = port_range_start

\* C26: start returns True, and the supervisor becomes running, only when a
\* pass of the readiness loop that began within the timeout found the process
\* not exited and GET /status answered 200; a pass that finds the process
\* exited ends the wait with False, no further pass is made; when the timeout
\* has elapsed start returns False.
ReadinessDecides ==
    [][(main.pc = "starting" /\ main.op = "start")
       => LET i == main.id IN
          /\ main'.pc = "starting" /\ main'.elapsed # main.elapsed
             => procs[i] = "alive" /\ main.elapsed < StartTimeout
          /\ main'.pc # "starting"
             => /\ Len(calls') = 1
                /\ calls'[1].op = "start"
                /\ calls'[1].result = (/\ main.elapsed < StartTimeout
                                       /\ procs[i] = "alive"
                                       /\ calls'[1].answered)
                /\ sup'[i].is_running = calls'[1].result
                /\ calls'[1].result => sup'[i].process /\ procs'[i] = "alive"
                /\ (procs[i] # "alive" /\ main.elapsed < StartTimeout)
                   => calls'[1].probe = "exited"
                /\ main.elapsed >= StartTimeout => calls'[1].probe = "timeout"]_vars

\* a start that returned True after a pass that found the backend answering
StartedAfterProbe ==
    /\ Len(calls) = 1
    /\ calls[1].op = "start"
    /\ calls[1].probe = "ready"
    /\ calls[1].result
    /\ sup[calls[1].id].is_running
    /\ procs[calls[1].id] = "alive"

\* C27: when a start that spawned a process has returned False, after the
\* readiness timeout or after the process exited early, the cleanup has sent
\* a signal to the process group, the supervisor holds no process handle and
\* it is not running.
FailedStartSignalled ==
    \A k \in 1..Len(calls) :
        (/\ calls[k].op = "start"
         /\ ~calls[k].result
         /\ calls[k].probe \in {"exited", "timeout"})
        => /\ calls[k].sigs # <<>>
           /\ ~sup[calls[k].id].process
           /\ ~sup[calls[k].id].is_running

\* C28: a stop of a running supervisor sends SIGTERM to the process group
\* before anything else, sends SIGKILL only after the wait for the live
\* process timed out, never SIGKILL first, and returns True when there is no
\* such process any more.
TermBeforeKill ==
    \A k \in 1..Len(calls) :
        (calls[k].op = "stop" /\ calls[k].before.is_running)
        => /\ calls[k].sigs \in {<<>>, <<"SIGTERM">>, <<"SIGTERM", "SIGKILL">>}
           /\ calls[k].sigs = <<"SIGTERM", "SIGKILL">>
              <=> (/\ calls[k].before.process
                   /\ calls[k].proc = "alive"
                   /\ calls[k].probe = "timeout")
           /\ (/\ calls[k].before.process
               /\ calls[k].proc = "alive"
               /\ calls[k].probe # "fail") => calls[k].sigs[1] = "SIGTERM"
           /\ (calls[k].before.process /\ calls[k].proc # "alive")
              => /\ calls[k].result
                 /\ ~sup[calls[k].id].is_running
                 /\ calls[k].probe = "gone" => calls[k].sigs = <<>>

\* a stop whose wait timed out: both signals were sent and stop returned True
KilledAfterTimeout ==
    /\ Len(calls) = 1
    /\ calls[1].op = "stop"
    /\ calls[1].before.is_running
    /\ calls[1].sigs = <<"SIGTERM", "SIGKILL">>
    /\ calls[1].result
    /\ procs[calls[1].id] = "killed"

\* C29: a stop of a supervisor that is not running returns True, sends no
\* signal and changes nothing; a stop that follows a stop of the same
\* supervisor therefore changes nothing either; a start of a running
\* supervisor returns True and spawns no process.
StopTwiceIsStop ==
    [][\A k \in 1..Len(calls') :
        LET c == calls'[k] IN
        /\ (c.op = "stop" /\ ~c.before.is_running)
           => c.result /\ c.sigs = <<>> /\ sup' = sup /\ procs' = procs
        /\ (c.op = "stop" /\ Len(calls) = 1 /\ calls[1].op = "stop"
                          /\ calls[1].id = c.id)
           => c.result /\ c.sigs = <<>> /\ sup' = sup /\ procs' = procs
        /\ (c.op = "start" /\ c.before.is_running)
           => c.result /\ sup' = sup /\ procs' = procs /\ orphans' = orphans]_vars

\* C30: is_alive returns True exactly when the process the supervisor holds
\* has not exited and GET /status answers 200; the only thing it changes is
\* is_running, from True to False, of a supervisor whose process has exited;
\* the process handle, the processes, the registry and used_ports are as
\* they were.
IsAliveFrame ==
    [][\A k \in 1..Len(calls') :
        calls'[k].op = "is_alive"
        => LET i == calls'[k].id IN
           /\ calls'[k].result = (/\ sup[i].process
                                  /\ procs[i] = "alive"
                                  /\ calls'[k].answered)
           /\ sup'[i].process = sup[i].process
           /\ sup'[i].port = sup[i].port
           /\ sup'[i].is_running # sup[i].is_running
              => sup[i].is_running /\ sup[i].process /\ procs[i] # "alive"
           /\ (sup[i].process /\ procs[i] # "alive") => ~sup'[i].is_running
           /\ \A j \in DOMAIN sup : j # i => sup'[j] = sup[j]
           /\ procs' = procs
           /\ sessions' = sessions
           /\ used_ports' = used_ports]_vars

\* is_alive found the process of a running supervisor exited: it returned
\* False, cleared is_running and kept the handle
MarkedNotRunning ==
    /\ Len(calls) = 1
    /\ calls[1].op = "is_alive"
    /\ calls[1].before.is_running
    /\ ~calls[1].result
    /\ ~sup[calls[1].id].is_running
    /\ sup[calls[1].id].process
    /\ procs[calls[1].id] = "exited"

\* C31: no reachable state has every thread waiting for a lock: never is the
\* main thread waiting for a supervisor's lock that one of its own frames
\* holds, with the registry lock in its hands, while the eviction thread
\* waits for the registry lock.
NoThreadWaitsForever ==
    ~(/\ hub = "hung"
      /\ main.pc = "stopping"
      /\ lock = "main"
      /\ cleanup.pc = "lock")

\* C32: while no create_session is inside start(), every spawned process that
\* is still running and was not signalled belongs to the supervisor of a
\* record of the registry: no supervisor outside the registry holds a live
\* process, and no live process is left without a supervisor.
NoOrphanBackends ==
    main.pc # "starting"
    => /\ orphans = {}
       /\ \A i \in Ids : procs[i] = "alive" => i \in DOMAIN sessions

\* C33: whenever delete_session returned True for a session of the registry,
\* whose backend start() had brought up, the stop of that call has sent a
\* termination signal to the backend's process group, also when an is_alive
\* call had found the process exited before.
DeleteSignalsGroup ==
    \A k \in 1..Len(calls) :
        (calls[k].op = "delete" /\ calls[k].found /\ calls[k].result)
        => calls[k].sigs # <<>>

\* C34: a request addressed to a session is never answered by the backend of
\* another session: when the outbound call of proxy_to_appium got an answer
\* from the port it was sent to, every record whose supervisor has that port
\* is the record of the session the request named.
ProxiedToOwnSession ==
    (/\ resp.op = "proxy_to_appium"
     /\ resp.target # NoTarget
     /\ resp.upstream = "status")
    => \A b \in DOMAIN sessions :
           sup[b].port = resp.target.port => b = resp.id

\* C35: every create_session call terminates: a call that is inside start()
\* is followed by a state in which it has returned, and whenever
\* create_session has returned, with an id or with None, the main thread is
\* back in the event loop and the registry lock is free.
CreateTerminates ==
    /\ [](\A k \in 1..Len(calls) :
             calls[k].op = "create" => main.pc = "loop" /\ lock = "none")
    /\ [](main.pc = "starting" => lock = "main" /\ main.elapsed <= StartTimeout)
    /\ (main.pc = "starting") ~> (main.pc = "loop" /\ lock = "none")

\* create_session returned None after the readiness timeout, with the
\* backend still running when the wait ended, and the lock is free
GaveUpAtTimeout ==
    /\ calls = <<CreateNone>>
    /\ main.pc = "loop"
    /\ lock = "none"
    /\ next_id = 2
    /\ sessions = << >>
    /\ sup[1] = NoSup
    /\ cleanup.sleep_left < CleanupInterval

====
